---- MODULE Spec2Model ----
(***************************************************************************)
(* Model of Senior_Project/newWifiScanner/main.py: the scanner registry    *)
(* (get_scanner), the scan pipeline of main() and sample(), the column     *)
(* parser OSXWifiScanner.parse_output, rssi_to_quality and aps_to_dict.    *)
(*                                                                         *)
(* Python strings are TLA+ strings; Python's 0-based half-open slices and  *)
(* its str methods are the operators of the first section.                 *)
(***************************************************************************)
EXTENDS Integers, Sequences, FiniteSets, TLC

(***************************************************************************)
(* Bounds of the model.                                                    *)
(***************************************************************************)
\* the largest number of lines in a raw text drawn from LineSet
MaxLines == 3

(***************************************************************************)
(* Python str primitives.                                                  *)
(***************************************************************************)
Min(a, b) == IF a <= b THEN a ELSE b

\* characters str.strip() (no argument) and int() remove at both ends
Whitespace == {" ", "\t", "\r", "\n", "\f"}

Digits == {"0", "1", "2", "3", "4", "5", "6", "7", "8", "9"}

\* s[k] for 0 <= k < len(s)
CharAt(s, k) == SubSeq(s, k + 1, k + 1)

\* s[a:b] for a, b >= 0: both ends are clamped to len(s), never an error
Slice(s, a, b) ==
  LET lo == Min(a, Len(s))
      hi == Min(b, Len(s))
  IN  IF hi <= lo THEN "" ELSE SubSeq(s, lo + 1, hi)

\* s[a:]
SliceFrom(s, a) == Slice(s, a, Len(s))

\* s.startswith(p)
StartsWith(s, p) == Len(s) >= Len(p) /\ Slice(s, 0, Len(p)) = p

\* s.find(t): the lowest index where t occurs in s, -1 when it does not.
\* s.index(t) is the same index, and raises ValueError where this is -1.
Find(s, t) ==
  LET hits == {k \in 0..(Len(s) - Len(t)) : Slice(s, k, k + Len(t)) = t}
  IN  IF hits = {} THEN -1
      ELSE CHOOSE k \in hits : \A j \in hits : k <= j

\* t in s
Contains(s, t) == Find(s, t) # -1

\* s.strip()
Strip(s) ==
  LET keep == {k \in 0..(Len(s) - 1) : CharAt(s, k) \notin Whitespace}
  IN  IF keep = {} THEN ""
      ELSE LET lo == CHOOSE k \in keep : \A j \in keep : k <= j
               hi == CHOOSE k \in keep : \A j \in keep : j <= k
           IN  Slice(s, lo, hi + 1)

\* s.split("\n"): always at least one element, "" for the empty text
RECURSIVE Split(_)
Split(s) ==
  LET k == Find(s, "\n")
  IN  IF k = -1 THEN <<s>>
      ELSE <<Slice(s, 0, k)>> \o Split(SliceFrom(s, k + 1))

\* "\n".join(ls)
RECURSIVE Join(_)
Join(ls) ==
  IF Len(ls) = 0 THEN ""
  ELSE IF Len(ls) = 1 THEN ls[1]
  ELSE ls[1] \o "\n" \o Join(Tail(ls))

(***************************************************************************)
(* int(s) on a text: optional surrounding whitespace, an optional sign,    *)
(* then decimal digits that single underscores may separate. Anything else *)
(* raises ValueError.                                                      *)
(***************************************************************************)
DigitVal(c) ==
  CASE c = "0" -> 0 [] c = "1" -> 1 [] c = "2" -> 2 [] c = "3" -> 3
    [] c = "4" -> 4 [] c = "5" -> 5 [] c = "6" -> 6 [] c = "7" -> 7
    [] c = "8" -> 8 [] c = "9" -> 9

\* the digits-and-underscores part of an int literal
IsDigitGroup(s) ==
  /\ Len(s) > 0
  /\ CharAt(s, 0) \in Digits
  /\ CharAt(s, Len(s) - 1) \in Digits
  /\ \A k \in 0..(Len(s) - 1) : CharAt(s, k) \in Digits \cup {"_"}
  /\ \A k \in 0..(Len(s) - 2) : ~(CharAt(s, k) = "_" /\ CharAt(s, k + 1) = "_")

HasSign(s) == Len(s) > 0 /\ CharAt(s, 0) \in {"+", "-"}

Unsigned(s) == IF HasSign(s) THEN SliceFrom(s, 1) ELSE s

\* the value of the decimal digits of s, read left to right
RECURSIVE DigitsValue(_, _)
DigitsValue(s, acc) ==
  IF Len(s) = 0 THEN acc
  ELSE LET c == CharAt(s, 0)
       IN  DigitsValue(SliceFrom(s, 1),
                       IF c \in Digits THEN 10 * acc + DigitVal(c) ELSE acc)

\* int(s) returns (TRUE) or raises ValueError (FALSE)
IntParses(s) == IsDigitGroup(Unsigned(Strip(s)))

\* the value int(s) returns
IntValue(s) ==
  LET t == Strip(s)
      v == DigitsValue(Unsigned(t), 0)
  IN  IF HasSign(t) /\ CharAt(t, 0) = "-" THEN 0 - v ELSE v

(***************************************************************************)
(* Raw texts the scan command can print. Each line is one case of          *)
(* parse_output: two well-formed headers with different column offsets,    *)
(* headers lacking a token, and data lines that are well-formed, ad-hoc    *)
(* (IBSS), non-numeric in the signal field, or truncated.                  *)
(***************************************************************************)
\* ssid_end_index 4, rssi_start_index 11, security_start_index 16
HeaderNarrow == "SSID BSSID RSSI SECURITY"

\* ssid_end_index 6, rssi_start_index 15, security_start_index 20
HeaderWide == "  SSID BSSID   RSSI SECURITY"

HeaderNoSecurity == "SSID BSSID RSSI"

HeaderNoRssi == "\tSSID BSSID SECURITY"

\* contains the header tokens, but not at the start of its trimmed content
NotAHeader == "x SSID BSSID RSSI SECURITY"

LineHome == "netA aa:01 -55  WPA2"

\* the same ssid and bssid as LineHome, another signal
LineHomeWeak == "netA aa:01 -101 WEP"

\* integer signal fields under both headers: -100 at 11..14, -70 at 15..17
LineTwoCols == "netB bb:02 -100-70  WPA"

LineAdHoc == "netC cc:03 -40  IBSS"

LineNoSignal == "netD dd:04 abc  WPA2"

\* ends inside the signal column of HeaderNarrow, before its security column
LineShort == "netE ee:05 -45"

LineSet ==
  { "", HeaderNarrow, HeaderWide, HeaderNoSecurity, HeaderNoRssi, NotAHeader,
    LineHome, LineHomeWeak, LineTwoCols, LineAdHoc, LineNoSignal, LineShort }

\* a header of `airport -s`: ssid_end_index 12, rssi_start_index 31,
\* security_start_index 50
AirportHeader ==
  "        SSID BSSID             RSSI CHANNEL HT CC SECURITY (auth/unicast/group)"

\* a network line whose columns lie 3 to the right of that header's: its
\* characters 31..34 are "ff -"
AirportHomeNet ==
  "HomeNet         aa:bb:cc:dd:ee:ff -55   6       Y  US WPA2(PSK/AES/AES)"

\* the same fields under the header's columns: "-55 " at 31..34, the
\* security text from 50 on
AirportHomeNetAligned ==
  "HomeNet      aa:bb:cc:dd:ee:ff -55   6      Y  US WPA2(PSK/AES/AES)"

AirportText == AirportHeader \o "\n" \o AirportHomeNet

AirportAlignedText == AirportHeader \o "\n" \o AirportHomeNetAligned

\* two sections, the same network line under each header
TwoSectionText == Join(<<HeaderNarrow, LineTwoCols, HeaderWide, LineTwoCols>>)

\* a line with no signal between two well-formed lines
MixedText == Join(<<HeaderNarrow, LineHome, LineNoSignal, LineHomeWeak>>)

Texts ==
  {Join(ls) : ls \in UNION {[1..n -> LineSet] : n \in 1..MaxLines}}
    \cup {AirportText, AirportAlignedText, TwoSectionText, MixedText}

OperatingSystems == {"Darwin", "Linux", "Windows"}

(***************************************************************************)
(* rssi_to_quality, AccessPoint and the per-line step of parse_output.     *)
(***************************************************************************)
\* rssi_to_quality held to the 0..150 scale its comment names
rssi_to_qualityClamped(rssi) ==
  IF 2 * (rssi + 100) < 0 THEN 0
  ELSE IF 2 * (rssi + 100) > 150 THEN 150
  ELSE 2 * (rssi + 100)

rssi_to_quality(rssi) == 2 * (rssi + 100)

AccessPoint(ssid, bssid, quality, security) ==
  [ssid |-> ssid, bssid |-> bssid, quality |-> quality, security |-> security]

\* a local of parse_output that no assignment has bound yet
Unbound == -1

\* the locals on entry with the offsets of a usual header as defaults
EntryFrameDefaults ==
  [ results |-> <<>>,
    origin |-> <<>>,
    security_start_index |-> 16,
    ssid_end_index |-> 4,
    rssi_start_index |-> 11,
    raised |-> "" ]

\* the locals of parse_output on entry; Python's False is the integer 0.
\* origin[k] is the 1-based number of the line results[k] was built from.
EntryFrame ==
  [ results |-> <<>>,
    origin |-> <<>>,
    security_start_index |-> 0,
    ssid_end_index |-> Unbound,
    rssi_start_index |-> Unbound,
    raised |-> "" ]

\* line.strip().startswith("SSID BSSID")
IsHeader(line) == StartsWith(Strip(line), "SSID BSSID")

\* the elif condition without its test for ad-hoc networks
IsDataLineNoAdHoc(line, security_start_index) ==
  /\ line # ""
  /\ security_start_index # 0

\* the elif condition: line and security_start_index and 'IBSS' not in line
IsDataLine(line, security_start_index) ==
  /\ line # ""
  /\ security_start_index # 0
  /\ ~Contains(line, "IBSS")

\* the header branch with the security offset taken after its token, as
\* the ssid offset is
HeaderStepAfterToken(f, line) ==
  IF Find(line, "SECURITY") = -1
  THEN [f EXCEPT !.raised = "ValueError"]
  ELSE IF Find(line, "RSSI") = -1
  THEN [f EXCEPT !.security_start_index = Find(line, "SECURITY") + 8,
                 !.ssid_end_index = Find(line, "SSID") + 4,
                 !.raised = "ValueError"]
  ELSE [f EXCEPT !.security_start_index = Find(line, "SECURITY") + 8,
                 !.ssid_end_index = Find(line, "SSID") + 4,
                 !.rssi_start_index = Find(line, "RSSI")]

\* the header branch honouring the first header only
HeaderStepOnce(f, line) ==
  IF f.security_start_index # 0 THEN f
  ELSE IF Find(line, "SECURITY") = -1
  THEN [f EXCEPT !.raised = "ValueError"]
  ELSE IF Find(line, "RSSI") = -1
  THEN [f EXCEPT !.security_start_index = Find(line, "SECURITY"),
                 !.ssid_end_index = Find(line, "SSID") + 4,
                 !.raised = "ValueError"]
  ELSE [f EXCEPT !.security_start_index = Find(line, "SECURITY"),
                 !.ssid_end_index = Find(line, "SSID") + 4,
                 !.rssi_start_index = Find(line, "RSSI")]

\* the header branch: three assignments in order, line.index raising
\* ValueError, outside any try, for a token the line does not hold
HeaderStep(f, line) ==
  IF Find(line, "SECURITY") = -1
  THEN [f EXCEPT !.raised = "ValueError"]
  ELSE IF Find(line, "RSSI") = -1
  THEN [f EXCEPT !.security_start_index = Find(line, "SECURITY"),
                 !.ssid_end_index = Find(line, "SSID") + 4,
                 !.raised = "ValueError"]
  ELSE [f EXCEPT !.security_start_index = Find(line, "SECURITY"),
                 !.ssid_end_index = Find(line, "SSID") + 4,
                 !.rssi_start_index = Find(line, "RSSI")]

\* the body of the try block raises (NameError on an unbound local,
\* ValueError from int); the except clause swallows it
TryRaises(f, line) ==
  \/ f.ssid_end_index = Unbound
  \/ f.rssi_start_index = Unbound
  \/ ~IntParses(Slice(line, f.rssi_start_index, f.rssi_start_index + 4))

\* the AccessPoint the try block builds from a line
LineRecord(f, line) ==
  LET ssid == Strip(Slice(line, 0, f.ssid_end_index))
      bssid == Strip(Slice(line, f.ssid_end_index + 1, f.rssi_start_index - 1))
      rssi == Strip(Slice(line, f.rssi_start_index, f.rssi_start_index + 4))
      security == SliceFrom(line, f.security_start_index)
  IN  AccessPoint(ssid, bssid, rssi_to_quality(IntValue(rssi)), security)

\* the elif branch without its try: the exception leaves parse_output
DataStepNoExcept(f, line, n) ==
  IF TryRaises(f, line) THEN [f EXCEPT !.raised = "ValueError"]
  ELSE [f EXCEPT !.results = Append(@, LineRecord(f, line)),
                 !.origin = Append(@, n)]

\* the elif branch: try to append a record, discard the line on any exception
DataStep(f, line, n) ==
  IF TryRaises(f, line) THEN f
  ELSE [f EXCEPT !.results = Append(@, LineRecord(f, line)),
                 !.origin = Append(@, n)]

\* one iteration of the for loop on line number n
ParseStep(f, line, n) ==
  IF IsHeader(line) THEN HeaderStep(f, line)
  ELSE IF IsDataLine(line, f.security_start_index) THEN DataStep(f, line, n)
  ELSE f

\* the loop from line number n on: it ends at the first raise
RECURSIVE ParseFrom(_, _, _)
ParseFrom(f, ls, n) ==
  IF n > Len(ls) \/ f.raised # "" THEN f
  ELSE ParseFrom(ParseStep(f, ls[n], n), ls, n + 1)

\* parse_output(output), as the frame it ends with
parse_output(output) == ParseFrom(EntryFrame, Split(output), 1)

(***************************************************************************)
(* aps_to_dict and print_wifi_networks.                                    *)
(***************************************************************************)
\* the key of the comprehension: ap['ssid'] + " " + ap['bssid']
DictKey(ap) == ap.ssid \o " " \o ap.bssid

\* a dict that keeps the first value written under a key
DictSetFirstWins(d, key, value) ==
  [k \in (DOMAIN d) \cup {key} |-> IF k \in DOMAIN d THEN d[k] ELSE value]

\* d[key] = value on a dict: a new key is added, an old one overwritten
DictSet(d, key, value) ==
  [k \in (DOMAIN d) \cup {key} |-> IF k = key THEN value ELSE d[k]]

\* the comprehension, one record after another, on the dict built so far
RECURSIVE DictFrom(_, _)
DictFrom(d, aps) ==
  IF Len(aps) = 0 THEN d
  ELSE DictFrom(DictSet(d, DictKey(Head(aps)), Head(aps).quality), Tail(aps))

\* the empty dict
EmptyDict == [k \in {} |-> 0]

aps_to_dict(aps) == DictFrom(EmptyDict, aps)

\* the list sample() uses in place of a scan when PYTHON_ENV is set
FixtureAps == <<AccessPoint("X", "XX:XX:XX:XX:XX:84", 100, "XX")>>

\* the colour of a row of the table
Bcolor(quality) ==
  IF quality >= 70 THEN "GREAT"
  ELSE IF quality >= 50 THEN "GOOD"
  ELSE IF quality >= 30 THEN "FAIR"
  ELSE "POOR"

\* sorted(networks, key=quality, reverse=True): stable, so a record goes
\* behind the records already placed whose quality is not lower
RECURSIVE InsertByQuality(_, _)
InsertByQuality(sorted, ap) ==
  IF Len(sorted) = 0 THEN <<ap>>
  ELSE IF Head(sorted).quality >= ap.quality
  THEN <<Head(sorted)>> \o InsertByQuality(Tail(sorted), ap)
  ELSE <<ap>> \o sorted

RECURSIVE SortedFrom(_, _)
SortedFrom(sorted, aps) ==
  IF Len(aps) = 0 THEN sorted
  ELSE SortedFrom(InsertByQuality(sorted, Head(aps)), Tail(aps))

\* the data rows print_wifi_networks prints, each with its colour
TableRows(networks) ==
  LET rows == SortedFrom(<<>>, networks)
  IN  [k \in 1..Len(rows) |-> [color |-> Bcolor(rows[k].quality), ap |-> rows[k]]]

(***************************************************************************)
(* The program: one run of main() or of sample() on a host.                *)
(***************************************************************************)
VARIABLES
  operating_system, \* platform.system() of the host
  entry,            \* the function that runs: "main" or "sample"
  pc,               \* where the run is
  wifi_scanner,     \* what get_scanner returned
  invoked,          \* how many times the scan command was run
  output,           \* the decoded text the scan command printed
  lines,            \* output.split("\n")
  i,                \* how many lines the for loop has consumed
  frame,            \* the locals of parse_output
  aps,              \* what get_access_points returned, or the fixture
  returned,         \* what sample returned, what main printed
  raised            \* the exception that ended the run, and where it was raised

vars ==
  << operating_system, entry, pc, wifi_scanner, invoked, output, lines, i,
     frame, aps, returned, raised >>

NoException == [type |-> "", in |-> ""]

Init ==
  /\ operating_system \in OperatingSystems
  /\ entry \in {"main", "sample"}
  /\ pc = "get_scanner"
  /\ wifi_scanner = "unset"
  /\ invoked = 0
  /\ output = ""
  /\ lines = <<>>
  /\ i = 0
  /\ frame = EntryFrame
  /\ aps = <<>>
  /\ returned = <<>>
  /\ raised = NoException

\* get_scanner: an OSXWifiScanner on Darwin; on any other system the
\* function falls off its end and returns None
get_scanner ==
  /\ pc = "get_scanner"
  /\ wifi_scanner' = IF operating_system = "Darwin" THEN "OSXWifiScanner" ELSE "None"
  /\ pc' = IF entry = "main" THEN "get_access_points" ELSE "environ"
  /\ UNCHANGED << operating_system, entry, invoked, output, lines, i, frame,
                  aps, returned, raised >>

\* sample: with PYTHON_ENV set the fixture stands in for the scan
SampleEnviron ==
  /\ pc = "environ"
  /\ \E python_env \in BOOLEAN :
       IF python_env
       THEN /\ aps' = FixtureAps
            /\ pc' = "aps_to_dict"
       ELSE /\ aps' = aps
            /\ pc' = "get_access_points"
  /\ UNCHANGED << operating_system, entry, wifi_scanner, invoked, output,
                  lines, i, frame, returned, raised >>

\* wifi_scanner.get_access_points() on None: AttributeError, nothing is run
AttributeOfNone ==
  /\ pc = "get_access_points"
  /\ wifi_scanner = "None"
  /\ raised' = [type |-> "AttributeError", in |-> entry]
  /\ pc' = "failed"
  /\ UNCHANGED << operating_system, entry, wifi_scanner, invoked, output,
                  lines, i, frame, aps, returned >>

\* get_access_points: call_subprocess runs the command once and the decoded
\* text, whatever the command printed, enters parse_output
call_subprocess ==
  /\ pc = "get_access_points"
  /\ wifi_scanner = "OSXWifiScanner"
  /\ invoked' = invoked + 1
  /\ \E out \in Texts :
       /\ output' = out
       /\ lines' = Split(out)
  /\ i' = 0
  /\ frame' = EntryFrame
  /\ pc' = "parse_output"
  /\ UNCHANGED << operating_system, entry, wifi_scanner, aps, returned, raised >>

\* the for loop meets a header line: the offsets are replaced, or
\* line.index raises ValueError and the exception leaves parse_output
ParseHeaderLine ==
  /\ pc = "parse_output"
  /\ i < Len(lines)
  /\ IsHeader(lines[i + 1])
  /\ frame' = ParseStep(frame, lines[i + 1], i + 1)
  /\ IF frame'.raised = ""
     THEN /\ i' = i + 1
          /\ pc' = pc
          /\ raised' = raised
     ELSE /\ i' = i
          /\ pc' = "failed"
          /\ raised' = [type |-> frame'.raised, in |-> "parse_output"]
  /\ UNCHANGED << operating_system, entry, wifi_scanner, invoked, output,
                  lines, aps, returned >>

\* the for loop meets a line of the elif branch: a record is appended, or
\* the except clause discards the line
ParseDataLine ==
  /\ pc = "parse_output"
  /\ i < Len(lines)
  /\ ~IsHeader(lines[i + 1])
  /\ IsDataLine(lines[i + 1], frame.security_start_index)
  /\ frame' = ParseStep(frame, lines[i + 1], i + 1)
  /\ i' = i + 1
  /\ UNCHANGED << operating_system, entry, pc, wifi_scanner, invoked, output,
                  lines, aps, returned, raised >>

\* the for loop meets a line of neither branch: blank, before any header,
\* or holding "IBSS"
ParseOtherLine ==
  /\ pc = "parse_output"
  /\ i < Len(lines)
  /\ ~IsHeader(lines[i + 1])
  /\ ~IsDataLine(lines[i + 1], frame.security_start_index)
  /\ frame' = ParseStep(frame, lines[i + 1], i + 1)
  /\ i' = i + 1
  /\ UNCHANGED << operating_system, entry, pc, wifi_scanner, invoked, output,
                  lines, aps, returned, raised >>

\* return results, and get_access_points returns them to main or sample
ParseReturn ==
  /\ pc = "parse_output"
  /\ i = Len(lines)
  /\ aps' = frame.results
  /\ pc' = IF entry = "main" THEN "print" ELSE "aps_to_dict"
  /\ UNCHANGED << operating_system, entry, wifi_scanner, invoked, output,
                  lines, i, frame, returned, raised >>

\* sample: return aps_to_dict(aps)
SampleReturn ==
  /\ pc = "aps_to_dict"
  /\ returned' = aps_to_dict(aps)
  /\ pc' = "done"
  /\ UNCHANGED << operating_system, entry, wifi_scanner, invoked, output,
                  lines, i, frame, aps, raised >>

\* main: with -n the number of access points is printed
PrintCount ==
  /\ pc = "print"
  /\ returned' = <<Len(aps)>>
  /\ pc' = "done"
  /\ UNCHANGED << operating_system, entry, wifi_scanner, invoked, output,
                  lines, i, frame, aps, raised >>

\* main: without -n print_wifi_networks prints the table; on an empty list
\* max() of the column widths raises ValueError
PrintTable ==
  /\ pc = "print"
  /\ IF Len(aps) = 0
     THEN /\ raised' = [type |-> "ValueError", in |-> "print_wifi_networks"]
          /\ returned' = returned
          /\ pc' = "failed"
     ELSE /\ raised' = raised
          /\ returned' = TableRows(aps)
          /\ pc' = "done"
  /\ UNCHANGED << operating_system, entry, wifi_scanner, invoked, output,
                  lines, i, frame, aps >>

Next ==
  \/ get_scanner
  \/ SampleEnviron
  \/ AttributeOfNone
  \/ call_subprocess
  \/ ParseHeaderLine
  \/ ParseDataLine
  \/ ParseOtherLine
  \/ ParseReturn
  \/ SampleReturn
  \/ PrintCount
  \/ PrintTable

Spec == Init /\ [][Next]_vars

(***************************************************************************)
(* Vocabulary of the properties, stated on the text and not on the         *)
(* parser's own tests.                                                     *)
(***************************************************************************)
\* the trimmed content of the line starts with "SSID BSSID": the tokens
\* follow a run of whitespace that starts the line
HeaderLike(line) ==
  \E k \in 0..Len(line) :
    /\ \A j \in 0..(k - 1) : CharAt(line, j) \in Whitespace
    /\ Slice(line, k, k + 10) = "SSID BSSID"

\* the number of the last header line before line n, 0 when there is none
GoverningHeader(ls, n) ==
  LET hs == {h \in 1..(n - 1) : HeaderLike(ls[h])}
  IN  IF hs = {} THEN 0 ELSE CHOOSE h \in hs : \A g \in hs : g <= h

\* the offsets a header line fixes
SsidEndOf(header) == Find(header, "SSID") + 4

RssiStartOf(header) == Find(header, "RSSI")

SecurityStartOf(header) == Find(header, "SECURITY")

\* the header holds the tokens its offsets are taken from
HasAllTokens(header) == Contains(header, "RSSI") /\ Contains(header, "SECURITY")

\* the signal field of line n: 4 characters from the RSSI column of the
\* header that governs it
SignalField(ls, n) ==
  LET rssiStart == RssiStartOf(ls[GoverningHeader(ls, n)])
  IN  Slice(ls[n], rssiStart, rssiStart + 4)

\* line n is a data line: not blank, not a header, after a header that
\* holds all tokens, and without "IBSS"
DataLine(ls, n) ==
  /\ ls[n] # ""
  /\ ~HeaderLike(ls[n])
  /\ GoverningHeader(ls, n) # 0
  /\ HasAllTokens(ls[GoverningHeader(ls, n)])
  /\ ~Contains(ls[n], "IBSS")

\* ls without its line n
RemoveLine(ls, n) == SubSeq(ls, 1, n - 1) \o SubSeq(ls, n + 1, Len(ls))

\* parse_output has been entered in this run
ParseEntered == invoked = 1

\* parse_output has returned its results
ParseReturned ==
  ParseEntered /\ pc # "parse_output" /\ raised.in # "parse_output"

\* an exception has left parse_output
ParseRaised == pc = "failed" /\ raised.in = "parse_output"

\* how a parse ended: the exception, or the records
Outcome(f) ==
  IF f.raised # "" THEN <<"raised", f.raised>> ELSE <<"returned", f.results>>

\* the numbers of the records of results built from line n
RecordsOf(n) == {k \in 1..Len(frame.results) : frame.origin[k] = n}

(***************************************************************************)
(* C1: for every raw text, header lines without "RSSI" or "SECURITY"       *)
(* included, parse_output returns a record sequence and no exception       *)
(* leaves it. The code raises ValueError from line.index on such a header. *)
(***************************************************************************)
C1_ParseNeverRaises == ~ParseRaised

(***************************************************************************)
(* C2: a data line whose signal field is no integer contributes no record, *)
(* and the parse ends as the parse of the text without that line ends.     *)
(***************************************************************************)
NoSignalLine(ls, n) == DataLine(ls, n) /\ ~IntParses(SignalField(ls, n))

C2_NoSignalLineDropped ==
  ParseEntered =>
    \A n \in 1..Len(lines) :
      NoSignalLine(lines, n) =>
        /\ RecordsOf(n) = {}
        /\ (ParseReturned \/ ParseRaised) =>
             Outcome(frame) = Outcome(parse_output(Join(RemoveLine(lines, n))))

\* the parse of MixedText returned: a record before and one after the line
C2_Witness ==
  /\ ParseReturned
  /\ output = MixedText
  /\ NoSignalLine(lines, 3)
  /\ frame.origin = <<2, 4>>

(***************************************************************************)
(* C3: on a host other than Darwin get_scanner fails with                  *)
(* UnsupportedPlatformError and no scan command is run. The code returns   *)
(* None from get_scanner and the run goes on.                              *)
(***************************************************************************)
C3_UnsupportedPlatformError ==
  (operating_system # "Darwin" /\ pc # "get_scanner") =>
    /\ raised = [type |-> "UnsupportedPlatformError", in |-> "get_scanner"]
    /\ invoked = 0

(***************************************************************************)
(* C4: the documented header and HomeNet line parse to exactly one record: *)
(* HomeNet, aa:bb:cc:dd:ee:ff, quality 90, WPA2(PSK/AES/AES). The code     *)
(* returns no record: the line's characters 31..34 are "ff -".             *)
(***************************************************************************)
HomeNetRecord ==
  [ ssid |-> "HomeNet", bssid |-> "aa:bb:cc:dd:ee:ff", quality |-> 90,
    security |-> "WPA2(PSK/AES/AES)" ]

C4_HomeNetRecord ==
  (ParseReturned /\ output = AirportText) => frame.results = <<HomeNetRecord>>

(***************************************************************************)
(* C4, amended: the documented text parses, without an exception, to the   *)
(* empty sequence, its line's signal field being "ff -"; with the line's   *)
(* fields under the header's columns it parses to exactly the one record.  *)
(***************************************************************************)
C4_HomeNetAligned ==
  /\ (ParseEntered /\ output \in {AirportText, AirportAlignedText}) => ~ParseRaised
  /\ (ParseReturned /\ output = AirportText) =>
       /\ SignalField(lines, 2) = "ff -"
       /\ frame.results = <<>>
  /\ (ParseReturned /\ output = AirportAlignedText) =>
       frame.results = <<HomeNetRecord>>

\* both texts have been parsed to the end
C4_Witness ==
  /\ ParseReturned
  /\ \/ output = AirportText /\ frame.results = <<>>
     \/ output = AirportAlignedText /\ Len(frame.results) = 1

(***************************************************************************)
(* C5: no record comes from a line that holds "IBSS".                      *)
(***************************************************************************)
C5_NoAdHocRecord ==
  \A k \in 1..Len(frame.results) : ~Contains(lines[frame.origin[k]], "IBSS")

\* a well-formed ad-hoc line under a header was consumed beside a network
C5_Witness ==
  /\ ParseReturned
  /\ lines = <<HeaderNarrow, LineAdHoc, LineHome>>
  /\ IntParses(SignalField(lines, 2))
  /\ Len(lines[2]) > SecurityStartOf(lines[1])
  /\ frame.origin = <<3>>

(***************************************************************************)
(* C6: a text without a header line (the empty text too) parses to the     *)
(* empty sequence without an exception, and at every point of the pass     *)
(* each record comes from a line after the first header line.              *)
(***************************************************************************)
C6_NothingBeforeHeader ==
  ParseEntered =>
    /\ (\A n \in 1..Len(lines) : ~HeaderLike(lines[n])) =>
         /\ ~ParseRaised
         /\ frame.results = <<>>
    /\ \A k \in 1..Len(frame.results) :
         GoverningHeader(lines, frame.origin[k]) # 0

\* a well-formed network line with no header anywhere has been passed
C6_Witness ==
  /\ ParseReturned
  /\ lines = <<LineHome, "", LineShort>>
  /\ frame.results = <<>>

KeyOf(ap) == ap.ssid \o " " \o ap.bssid

LastWithKey(key) ==
  CHOOSE k \in 1..Len(aps) :
    /\ KeyOf(aps[k]) = key
    /\ \A j \in (k + 1)..Len(aps) : KeyOf(aps[j]) # key

C8_LastWriteWins ==
  (entry = "sample" /\ pc = "done") =>
    /\ DOMAIN returned = {KeyOf(aps[k]) : k \in 1..Len(aps)}
    /\ \A key \in DOMAIN returned : returned[key] = aps[LastWithKey(key)].quality

\* two records with one key and different qualities were aggregated
C8_Witness ==
  /\ entry = "sample"
  /\ pc = "done"
  /\ Len(aps) = 2
  /\ KeyOf(aps[1]) = KeyOf(aps[2])
  /\ aps[1].quality # aps[2].quality
  /\ Cardinality(DOMAIN returned) = 1

(***************************************************************************)
(* C9: a data line shorter than rssiStart + 4, or of length at most        *)
(* securityStart, contributes no record. The code slices such a line       *)
(* without an error and appends a record.                                  *)
(***************************************************************************)
OutOfBounds(ls, n) ==
  LET header == ls[GoverningHeader(ls, n)]
  IN  \/ Len(ls[n]) < RssiStartOf(header) + 4
      \/ Len(ls[n]) <= SecurityStartOf(header)

C9_OutOfBoundsDiscarded ==
  ParseEntered =>
    \A n \in 1..Len(lines) :
      (DataLine(lines, n) /\ OutOfBounds(lines, n)) => RecordsOf(n) = {}

(***************************************************************************)
(* C10: offsets are replaced at, and only at, the lines whose trimmed      *)
(* content starts with "SSID BSSID"; such a line yields no record; every   *)
(* record is sliced with the offsets of the last header before its line.   *)
(***************************************************************************)
\* the record the text fixes for line n
SlicedRecord(ls, n) ==
  LET header == ls[GoverningHeader(ls, n)]
      line == ls[n]
  IN  [ ssid |-> Strip(Slice(line, 0, SsidEndOf(header))),
        bssid |-> Strip(Slice(line, SsidEndOf(header) + 1, RssiStartOf(header) - 1)),
        quality |-> 2 * (IntValue(SignalField(ls, n)) + 100),
        security |-> SliceFrom(line, SecurityStartOf(header)) ]

====
